---- MODULE Spec2Model ----
(***************************************************************************)
(* Design lifecycle backend of design-your-tesla (backend/main.go).        *)
(* The database is the shared state; every HTTP request is a process that  *)
(* issues its SQL statements one at a time, so two requests interleave     *)
(* between the SELECT of findDesignByID and the UPDATE that follows it.    *)
(* Go strings are sequences of one-character strings.                      *)
(***************************************************************************)
EXTENDS Integers, Sequences, FiniteSets, TLC

(* ------------------------------ bounds -------------------------------- *)
MaxUsers == 2
MaxDesigns == 1
MaxProcs == 2
MaxRequests == 2
MaxClock == 1
MaxEntries == 2

(* ------------------------------ strings ------------------------------- *)
Lower == <<"a","b","c","d","e","f","g","h","i","j","k","l","m",
           "n","o","p","q","r","s","t","u","v","w","x","y","z">>
Upper == <<"A","B","C","D","E","F","G","H","I","J","K","L","M",
           "N","O","P","Q","R","S","T","U","V","W","X","Y","Z">>
DigitChars == <<"0","1","2","3","4","5","6","7","8","9">>
WhiteSpace == {" ", "\t", "\n", "\r"}
HexChars == {"0","1","2","3","4","5","6","7","8","9",
             "A","B","C","D","E","F","a","b","c","d","e","f"}

ToUpperChar(c) ==
    IF \E i \in 1..26 : Lower[i] = c
      THEN Upper[CHOOSE i \in 1..26 : Lower[i] = c]
      ELSE c

ToLowerChar(c) ==
    IF \E i \in 1..26 : Upper[i] = c
      THEN Lower[CHOOSE i \in 1..26 : Upper[i] = c]
      ELSE c

ToUpper(s) == [i \in 1..Len(s) |-> ToUpperChar(s[i])]

ToLower(s) == [i \in 1..Len(s) |-> ToLowerChar(s[i])]

TrimSpace(s) ==
    LET keep == {i \in 1..Len(s) : s[i] \notin WhiteSpace}
    IN  IF keep = {} THEN <<>>
        ELSE LET lo == CHOOSE i \in keep : \A j \in keep : i <= j
                 hi == CHOOSE i \in keep : \A j \in keep : j <= i
             IN  SubSeq(s, lo, hi)

\* strings.ReplaceAll(s, "-", "_") and strings.ReplaceAll(s, " ", "_")
ReplaceChar(s, from, to) == [i \in 1..Len(s) |-> IF s[i] = from THEN to ELSE s[i]]

\* one pass of strings.ReplaceAll(s, "__", "_"): non-overlapping, left to right
RECURSIVE ReplaceDoubleUnderscore(_)
ReplaceDoubleUnderscore(s) ==
    IF Len(s) < 2 THEN s
    ELSE IF s[1] = "_" /\ s[2] = "_"
      THEN <<"_">> \o ReplaceDoubleUnderscore(SubSeq(s, 3, Len(s)))
      ELSE <<s[1]>> \o ReplaceDoubleUnderscore(Tail(s))

HasDoubleUnderscore(s) == \E i \in 1..(Len(s) - 1) : s[i] = "_" /\ s[i + 1] = "_"

RECURSIVE CollapseUnderscores(_)
CollapseUnderscores(s) ==
    IF HasDoubleUnderscore(s) THEN CollapseUnderscores(ReplaceDoubleUnderscore(s)) ELSE s

normalizeMaterialName(value) ==
    CollapseUnderscores(
        ReplaceChar(ReplaceChar(ToLower(TrimSpace(value)), "-", "_"), " ", "_"))

\* hexRegex = ^#[0-9A-Fa-f]{6}$
hexRegex(s) == Len(s) = 7 /\ s[1] = "#" /\ \A i \in 2..7 : s[i] \in HexChars

\* decimal rendering of a small natural number (strconv / %d)
RECURSIVE FormatInt(_)
FormatInt(n) == IF n < 10 THEN <<DigitChars[n + 1]>>
                ELSE FormatInt(n \div 10) \o <<DigitChars[(n % 10) + 1]>>

(* ------------------------------ catalog ------------------------------- *)
material_ == <<"m","a","t","e","r","i","a","l","_">>
material_1 == material_ \o <<"1">>
material_3 == material_ \o <<"3">>
material_5 == material_ \o <<"5">>
material_6 == material_ \o <<"6">>
material_7 == material_ \o <<"7">>
material_8 == material_ \o <<"8">>
material_9 == material_ \o <<"9">>
material_2 == material_ \o <<"2">>

GLOSS == <<"G","L","O","S","S">>
MATTE == <<"M","A","T","T","E">>
NONE == <<"N","O","N","E">>
PATTERN_ == <<"P","A","T","T","E","R","N","_">>
PATTERN_1 == PATTERN_ \o <<"1">>
PATTERN_2 == PATTERN_ \o <<"2">>
PATTERN_3 == PATTERN_ \o <<"3">>

defaultCatalog ==
    [Materials |-> {material_1, material_3, material_5, material_6,
                    material_7, material_8, material_9},
     AllowedFinishes |-> {GLOSS, MATTE},
     AllowedPatternIDs |-> {NONE, PATTERN_1, PATTERN_2, PATTERN_3}]

statusApproved == "APPROVED"
statusDraft == "DRAFT"
statusRejected == "REJECTED"
statusSubmitted == "SUBMITTED"

(* ------------------------- selection validator ------------------------ *)
\* A selections map is a function from keys to [ColorHex, Finish, PatternID].
NoSelections == [k \in {} |-> 0]

errEmptySelections == "selections must include at least one material"
errKeyNotAllowed == "material key is not allowed"
errInvalidColor == "material has invalid colorHex"
errInvalidFinish == "material has invalid finish"
errInvalidPattern == "material has invalid patternId"

\* variant: the colour is checked before the key
EntryError_colorFirst(key, value) ==
    IF ~hexRegex(ToUpper(TrimSpace(value.ColorHex))) THEN errInvalidColor
    ELSE IF key \notin defaultCatalog.Materials THEN errKeyNotAllowed
    ELSE IF value.Finish \notin defaultCatalog.AllowedFinishes THEN errInvalidFinish
    ELSE IF value.PatternID \notin defaultCatalog.AllowedPatternIDs THEN errInvalidPattern
    ELSE ""

\* variant: the colour is matched as it was sent, without strings.ToUpper
EntryError_upperOnly(key, value) ==
    IF key \notin defaultCatalog.Materials THEN errKeyNotAllowed
    ELSE IF \/ ~hexRegex(TrimSpace(value.ColorHex))
            \/ TrimSpace(value.ColorHex) # ToUpper(TrimSpace(value.ColorHex))
      THEN errInvalidColor
    ELSE IF value.Finish \notin defaultCatalog.AllowedFinishes THEN errInvalidFinish
    ELSE IF value.PatternID \notin defaultCatalog.AllowedPatternIDs THEN errInvalidPattern
    ELSE ""

\* the error the loop body of validateSelections returns for one entry, or ""
EntryError(key, value) ==
    IF key \notin defaultCatalog.Materials THEN errKeyNotAllowed
    ELSE IF ~hexRegex(ToUpper(TrimSpace(value.ColorHex))) THEN errInvalidColor
    ELSE IF value.Finish \notin defaultCatalog.AllowedFinishes THEN errInvalidFinish
    ELSE IF value.PatternID \notin defaultCatalog.AllowedPatternIDs THEN errInvalidPattern
    ELSE ""

\* variant: the colour is stored as it was sent
NormalizedEntry_asGiven(value) ==
    [ColorHex |-> value.ColorHex,
     Finish |-> value.Finish,
     PatternID |-> value.PatternID]

\* variant: the colour is stored without its '#'
NormalizedEntry_noHash(value) ==
    [ColorHex |-> Tail(ToUpper(TrimSpace(value.ColorHex))),
     Finish |-> value.Finish,
     PatternID |-> value.PatternID]

NormalizedEntry(value) ==
    [ColorHex |-> ToUpper(TrimSpace(value.ColorHex)),
     Finish |-> value.Finish,
     PatternID |-> value.PatternID]

\* variant: a map of no entries is accepted
validateSelections_allowsEmpty(selections) ==
    IF \A k \in DOMAIN selections : EntryError(k, selections[k]) = ""
      THEN {[err |-> "", key |-> <<>>,
             value |-> [k \in DOMAIN selections |-> NormalizedEntry(selections[k])]]}
    ELSE {[err |-> EntryError(k, selections[k]), key |-> k, value |-> NoSelections] :
             k \in {x \in DOMAIN selections : EntryError(x, selections[x]) # ""}}

\* validateSelections ranges over a Go map, whose iteration order is not
\* fixed: the error of any failing entry may be the one returned.  The result
\* is therefore a set of possible outcomes [err, key, value].
validateSelections(selections) ==
    IF DOMAIN selections = {}
      THEN {[err |-> errEmptySelections, key |-> <<>>, value |-> NoSelections]}
    ELSE IF \A k \in DOMAIN selections : EntryError(k, selections[k]) = ""
      THEN {[err |-> "", key |-> <<>>,
             value |-> [k \in DOMAIN selections |-> NormalizedEntry(selections[k])]]}
    ELSE {[err |-> EntryError(k, selections[k]), key |-> k, value |-> NoSelections] :
             k \in {x \in DOMAIN selections : EntryError(x, selections[x]) # ""}}

(* --------------------------- submission gate -------------------------- *)
errGlassPattern == "Glass selection must use patternId NONE before submission"
errMissingBodyPaint == "submission requires a Body_Paint selection"
errMissingGlass == "submission requires a Glass selection"

s_bodypaint == <<"b","o","d","y","p","a","i","n","t">>
s_body_paint == <<"b","o","d","y","_","p","a","i","n","t">>
s_glass == <<"g","l","a","s","s">>
s_glassset == <<"g","l","a","s","s","s","e","t">>
s_glass_set == <<"g","l","a","s","s","_","s","e","t">>

IsBodyPaintKey(key) ==
    normalizeMaterialName(key) \in {material_9, s_bodypaint, s_body_paint}

\* variant: every key counts as glass
IsGlassKey_any(key) == key = key

IsGlassKey(key) ==
    normalizeMaterialName(key) \in {material_3, s_glass, s_glassset, s_glass_set}

\* variant: the pattern rule is applied to every entry, not only to glass
validateSubmissionSelections_anyPattern(selections) ==
    IF \E k \in DOMAIN selections :
          ToUpper(TrimSpace(selections[k].PatternID)) # NONE
      THEN errGlassPattern
    ELSE IF ~\E k \in DOMAIN selections : IsBodyPaintKey(k) THEN errMissingBodyPaint
    ELSE IF ~\E k \in DOMAIN selections : IsGlassKey(k) THEN errMissingGlass
    ELSE ""

\* variant: the pattern of the glass entry is not looked at
validateSubmissionSelections_ignoresPattern(selections) ==
    IF ~\E k \in DOMAIN selections : IsBodyPaintKey(k) THEN errMissingBodyPaint
    ELSE IF ~\E k \in DOMAIN selections : ~IsBodyPaintKey(k) /\ IsGlassKey(k)
      THEN errMissingGlass
    ELSE ""

\* variant: a glass entry is not required
validateSubmissionSelections_noGlassRule(selections) ==
    IF \E k \in DOMAIN selections :
          /\ ~IsBodyPaintKey(k)
          /\ IsGlassKey(k)
          /\ ToUpper(TrimSpace(selections[k].PatternID)) # NONE
      THEN errGlassPattern
    ELSE IF ~\E k \in DOMAIN selections : IsBodyPaintKey(k) THEN errMissingBodyPaint
    ELSE ""

\* The loop returns as soon as it meets a glass entry whose pattern is not
\* NONE; every entry is visited otherwise, so the result does not depend on
\* the iteration order.
validateSubmissionSelections(selections) ==
    IF \E k \in DOMAIN selections :
          /\ ~IsBodyPaintKey(k)
          /\ IsGlassKey(k)
          /\ ToUpper(TrimSpace(selections[k].PatternID)) # NONE
      THEN errGlassPattern
    ELSE IF ~\E k \in DOMAIN selections : IsBodyPaintKey(k) THEN errMissingBodyPaint
    ELSE IF ~\E k \in DOMAIN selections : ~IsBodyPaintKey(k) /\ IsGlassKey(k)
      THEN errMissingGlass
    ELSE ""

(* ------------------------------- state -------------------------------- *)
VARIABLES
    designs,      \* the designs table: row i has id i (AUTOINCREMENT)
    clock,        \* the latest time.Now() a statement has read, in seconds
    req,          \* per connection: the request in flight between two statements
    resp,         \* the last response written
    started,      \* number of requests accepted so far
    submittedLog, \* per design id: the selections it held while SUBMITTED
    users,        \* the users table: row i has id i (AUTOINCREMENT)
    registerLog,  \* the registrations answered so far: email sent, status code
    savedDesigns,       \* the mobile client's list of saved designs
    submittingDesignID  \* the design the client is submitting, <<>> for none

vars == <<designs, clock, req, resp, started, submittedLog,
          users, registerLog, savedDesigns, submittingDesignID>>

Procs == 1..MaxProcs
Users == 1..MaxUsers

\* users(id, email): the accounts the bearer tokens of Users stand for
userEmail(u) == <<"u">> \o FormatInt(u) \o <<"@", "x", ".", "y">>
StartUsers == [u \in Users |-> [id |-> u, email |-> userEmail(u)]]
\* the ids a request path can carry: 0 (refused), the ids of the stored
\* designs, and the first id no design has yet
PathIDs == 0..(Len(designs) + 1)

\* sql.NullString
NullString == [Valid |-> FALSE, String |-> <<>>]
ValidString(s) == [Valid |-> TRUE, String |-> s]

IdleReq ==
    [op |-> "none", pc |-> "idle", id |-> 0, user |-> 0, name |-> <<>>,
     selections |-> NoSelections, status |-> "", reason |-> NullString,
     created_at |-> 0]

NoResp == [op |-> "none", id |-> 0, code |-> 0, error |-> "", body |-> <<>>]

\* designRecord as encoded by writeJSON (UserID and DatabaseID are json:"-")
designRecord(id, name, selections, status, reason, createdAt, updatedAt) ==
    [id |-> FormatInt(id), name |-> name, selections |-> selections,
     status |-> status, rejectionReason |-> reason,
     createdAt |-> createdAt, updatedAt |-> updatedAt]

RowRecord(row) ==
    designRecord(row.id, row.name, row.selections_json, row.status,
                 row.rejection_reason, row.created_at, row.updated_at)

writeJSON(op, id, code, payload) ==
    [op |-> op, id |-> id, code |-> code, error |-> "", body |-> <<payload>>]

writeError(op, id, code, message) ==
    [op |-> op, id |-> id, code |-> code, error |-> message, body |-> <<>>]

\* findDesignByID: SELECT ... FROM designs WHERE id = ?  (sql.ErrNoRows when absent)
RowExists(id) == id \in 1..Len(designs)

Busy(p) == req[p].pc # "idle"

Log(ds) ==
    [d \in 1..MaxDesigns |->
        IF d <= Len(ds) /\ ds[d].status = statusSubmitted
          THEN submittedLog[d] \cup {ds[d].selections_json}
          ELSE submittedLog[d]]

\* a request that ends within its first statement
Finish(p, response) ==
    /\ resp' = response
    /\ req' = [req EXCEPT ![p] = IdleReq]

\* connections are interchangeable: a new request takes the first free one
Accept(p) ==
    /\ ~Busy(p)
    /\ \A q \in 1..(p - 1) : Busy(q)
    /\ started < MaxRequests
    /\ started' = started + 1

(* --------------------------- request inputs --------------------------- *)
colorA == <<"#","1","a","2","b","3","c">>
colorB == <<"#","1","A","2","3","3","0">>

entry(color, pattern) == [ColorHex |-> color, Finish |-> GLOSS, PatternID |-> pattern]

selGood == (material_9 :> entry(colorA, PATTERN_2)) @@ (material_3 :> entry(colorB, NONE))
selPattern == (material_9 :> entry(colorB, NONE)) @@ (material_3 :> entry(colorB, PATTERN_1))
selBodyOnly == (material_9 :> entry(colorB, NONE))
selUnknown == (material_2 :> entry(colorB, NONE))

\* request bodies of POST /designs and PUT /designs/{id}; ok = FALSE is a
\* body decodeJSON rejects
Bodies ==
    {[ok |-> TRUE, Name |-> <<"A">>, Selections |-> selGood],
     [ok |-> TRUE, Name |-> <<" ">>, Selections |-> selPattern],
     [ok |-> TRUE, Name |-> <<"A">>, Selections |-> selUnknown],
     [ok |-> FALSE, Name |-> <<>>, Selections |-> NoSelections]}

\* bodies whose "selections" is missing, null or {}: decodeJSON leaves a
\* map of length 0 in each case
EmptyBodies ==
    {[ok |-> TRUE, Name |-> <<"A">>, Selections |-> NoSelections],
     [ok |-> TRUE, Name |-> <<>>, Selections |-> NoSelections]}

\* request bodies of POST /admin/designs/{id}/reject
RejectBodies ==
    {[ok |-> TRUE, Reason |-> <<" ", "\t">>],
     [ok |-> TRUE, Reason |-> <<" ", "f", "i", "x", " ">>],
     [ok |-> FALSE, Reason |-> <<>>]}

adminSecret == <<"s", "3">>
bearerPrefix == <<"B","e","a","r","e","r"," ">>

HasPrefix(s, prefix) == Len(s) >= Len(prefix) /\ SubSeq(s, 1, Len(prefix)) = prefix
TrimPrefix(s, prefix) == IF HasPrefix(s, prefix) THEN SubSeq(s, Len(prefix) + 1, Len(s)) ELSE s

\* the X-Admin-Secret and Authorization headers of an admin request
AdminHeaders ==
    {[XAdminSecret |-> adminSecret, Authorization |-> <<>>],
     [XAdminSecret |-> <<>>, Authorization |-> bearerPrefix \o <<"j","w","t","1">>]}

\* what else a request to /admin can carry: the secret padded, the secret
\* as a bearer token, a user's bearer token, nothing, a wrong secret, a wrong
\* secret next to the right bearer token, the secret without "Bearer ", and
\* a lower-case "bearer "
CredentialHeaders ==
    AdminHeaders \cup
    {[XAdminSecret |-> <<" ">> \o adminSecret \o <<" ">>, Authorization |-> <<>>],
     [XAdminSecret |-> <<>>, Authorization |-> bearerPrefix \o adminSecret],
     [XAdminSecret |-> <<>>, Authorization |-> <<>>],
     [XAdminSecret |-> <<"s", "4">>, Authorization |-> <<>>],
     [XAdminSecret |-> <<"s", "4">>, Authorization |-> bearerPrefix \o adminSecret],
     [XAdminSecret |-> <<>>, Authorization |-> adminSecret],
     [XAdminSecret |-> <<>>,
      Authorization |-> <<"b","e","a","r","e","r"," ">> \o adminSecret]}

\* variant: any bearer token is taken for the admin secret
requireAdminSecret_anyBearer(hdr) ==
    LET x == TrimSpace(hdr.XAdminSecret)
        auth == TrimSpace(hdr.Authorization)
        secret == IF x # <<>> THEN x
                  ELSE IF HasPrefix(auth, bearerPrefix)
                    THEN adminSecret
                    ELSE <<>>
    IN  secret # <<>> /\ secret = adminSecret

requireAdminSecret(hdr) ==
    LET x == TrimSpace(hdr.XAdminSecret)
        auth == TrimSpace(hdr.Authorization)
        secret == IF x # <<>> THEN x
                  ELSE IF HasPrefix(auth, bearerPrefix)
                    THEN TrimSpace(TrimPrefix(auth, bearerPrefix))
                    ELSE <<>>
    IN  secret # <<>> /\ secret = adminSecret

\* findGlassMaterialKey(catalog): the catalog has the key material_3
glassKey == material_3

\* the materials of the saved designs the mobile client submits: glass and
\* body paint without a pattern, patterned glass with and without body
\* paint, and body paint alone
selPlain == (material_9 :> entry(colorB, NONE)) @@ (material_3 :> entry(colorB, NONE))
selGlassPattern == (material_3 :> entry(colorB, PATTERN_1))
selPatterns == (material_9 :> entry(colorB, PATTERN_3)) @@ (material_3 :> entry(colorB, PATTERN_2))
ClientSelections == {selPlain, selPattern, selPatterns, selGlassPattern, selBodyOnly}

\* cloneDesignState(design.materials) with the glass entry's patternId NONE
patchedMaterials(materials) == [materials EXCEPT ![glassKey].PatternID = NONE]

\* the client patches a design whose glass entry has a pattern
NeedsPatch(materials) ==
    glassKey \in DOMAIN materials /\ materials[glassKey].PatternID # NONE

\* the bodies updateDesign sends for them
ClientBodies ==
    {[ok |-> TRUE, Name |-> <<"A">>, Selections |-> patchedMaterials(m)] :
        m \in {x \in ClientSelections : NeedsPatch(x)}}

\* validateSelections(req.Selections), for each body a request can carry
Validated ==
    [body \in Bodies \cup EmptyBodies \cup ClientBodies |->
        validateSelections(body.Selections)]

(* ------------------------------ handlers ------------------------------ *)
\* variant: the ownership comparison is missing
IsOwner_anyone(row, user) == TRUE

\* record.UserID != user.ID is answered like a missing row
IsOwner(row, user) == row.user_id = user

\* variant: the SUBMITTED guard is missing
submitStatusError_noSubmitted(status) ==
    IF status = statusApproved THEN "approved designs cannot be re-submitted" ELSE ""

\* the status guards of handleSubmitDesign, "" when the submit may go on
submitStatusError(status) ==
    IF status = statusSubmitted THEN "design is already submitted"
    ELSE IF status = statusApproved THEN "approved designs cannot be re-submitted"
    ELSE ""

\* variant: the guard only refuses drafts
adminStatusOK_notDraft(status) == status # statusDraft

\* the status guard of the two admin handlers: record.Status != statusSubmitted
adminStatusOK(status) == status = statusSubmitted

\* variant: the reason is taken as sent
rejectReason_untrimmed(body) == body.Reason

\* reason := strings.TrimSpace(req.Reason)
rejectReason(body) == TrimSpace(body.Reason)

\* what validateSelections stored for a request body it accepted
Stored(selections) == (CHOOSE v \in validateSelections(selections) : v.err = "").value

\* The server opens the database file at DB_PATH and initSchema keeps the rows
\* it finds, so the service starts on an empty table or on a table left by an
\* earlier run.  StartRows are rows such a run leaves behind: a draft, and a
\* design submitted and then approved or rejected.  Users are interchangeable,
\* so the stored design is the first user's.
StartRows ==
    {[id |-> 1, user_id |-> 1, name |-> <<"A">>, selections_json |-> Stored(c.sel),
      status |-> c.status, rejection_reason |-> c.reason,
      created_at |-> 0, updated_at |-> 0] :
        c \in {[sel |-> selGood, status |-> statusDraft, reason |-> NullString],
               [sel |-> selPattern, status |-> statusDraft, reason |-> NullString],
               [sel |-> selGood, status |-> statusSubmitted, reason |-> NullString],
               [sel |-> selGood, status |-> statusApproved, reason |-> NullString],
               [sel |-> selGood, status |-> statusRejected,
                reason |-> ValidString(<<"f", "i", "x">>)]}}

Init ==
    /\ users = StartUsers
    /\ registerLog = <<>>
    /\ savedDesigns = <<>>
    /\ submittingDesignID = <<>>
    /\ designs \in {<<>>} \cup {<<row>> : row \in StartRows}
    /\ clock = 0
    /\ req = [p \in Procs |-> IdleReq]
    /\ resp = NoResp
    /\ started = 0
    /\ submittedLog =
          [d \in 1..MaxDesigns |->
             IF d <= Len(designs) /\ designs[d].status # statusDraft
               THEN {designs[d].selections_json} ELSE {}]

\* time.Now() of a statement: the clock has not gone back since the last read
Now == clock..MaxClock

\* POST /designs: one INSERT
\* variant: every design is stored under the first user
CreateInsert_firstUser(user, name, selections, now) ==
    LET id == Len(designs) + 1
        row == [id |-> id, user_id |-> 1, name |-> name,
                selections_json |-> selections, status |-> statusDraft,
                rejection_reason |-> NullString,
                created_at |-> now, updated_at |-> now]
    IN  Append(designs, row)

CreateInsert(user, name, selections, now) ==
    LET id == Len(designs) + 1
        row == [id |-> id, user_id |-> user, name |-> name,
                selections_json |-> selections, status |-> statusDraft,
                rejection_reason |-> NullString,
                created_at |-> now, updated_at |-> now]
    IN  Append(designs, row)

handleCreateDesign(p, user, body) ==
    /\ Accept(p)
    /\ Len(designs) < MaxDesigns
    /\ IF ~body.ok
         THEN /\ Finish(p, writeError("create", 0, 400, "invalid JSON payload"))
              /\ UNCHANGED <<designs, clock>>
         ELSE \E v \in Validated[body] :
                IF v.err # ""
                  THEN /\ Finish(p, writeError("create", 0, 400, v.err))
                       /\ UNCHANGED <<designs, clock>>
                  ELSE \E now \in Now :
                       LET trimmed == TrimSpace(body.Name)
                           name == IF trimmed = <<>>
                                     THEN <<"D","e","s","i","g","n"," ">> \o FormatInt(now)
                                     ELSE trimmed
                           id == Len(designs) + 1
                       IN  /\ designs' = CreateInsert(user, name, v.value, now)
                           /\ clock' = now
                           /\ Finish(p, writeJSON("create", id, 201,
                                  designRecord(id, name, v.value, statusDraft,
                                               NullString, now, now)))
    /\ submittedLog' = Log(designs')
    /\ UNCHANGED <<users, registerLog, savedDesigns, submittingDesignID>>

\* GET /designs/{id}
handleGetDesign(p, user, id) ==
    /\ Accept(p)
    /\ IF id <= 0
         THEN Finish(p, writeError("get", id, 400, "design id is invalid"))
       ELSE IF ~RowExists(id)
         THEN Finish(p, writeError("get", id, 404, "design not found"))
       ELSE IF ~IsOwner(designs[id], user)
         THEN Finish(p, writeError("get", id, 404, "design not found"))
       ELSE Finish(p, writeJSON("get", id, 200, RowRecord(designs[id])))
    /\ UNCHANGED <<designs, clock, submittedLog>>
    /\ UNCHANGED <<users, registerLog, savedDesigns, submittingDesignID>>

\* PUT /designs/{id}, up to the UPDATE statement
handleUpdateDesign(p, user, id, body) ==
    /\ Accept(p)
    /\ IF id <= 0
         THEN Finish(p, writeError("update", id, 400, "design id is invalid"))
       ELSE IF ~RowExists(id)
         THEN Finish(p, writeError("update", id, 404, "design not found"))
       ELSE IF ~IsOwner(designs[id], user)
         THEN Finish(p, writeError("update", id, 404, "design not found"))
       ELSE IF ~body.ok
         THEN Finish(p, writeError("update", id, 400, "invalid JSON payload"))
       ELSE \E v \in Validated[body] :
              IF v.err # ""
                THEN Finish(p, writeError("update", id, 400, v.err))
                ELSE /\ req' = [req EXCEPT ![p] =
                           [op |-> "update", pc |-> "update", id |-> id, user |-> user,
                            name |-> IF TrimSpace(body.Name) = <<>>
                                       THEN designs[id].name
                                       ELSE TrimSpace(body.Name),
                            selections |-> v.value, status |-> statusDraft,
                            reason |-> NullString,
                            created_at |-> designs[id].created_at]]
                     /\ UNCHANGED resp
    /\ UNCHANGED <<designs, clock, submittedLog>>
    /\ UNCHANGED <<users, registerLog, savedDesigns, submittingDesignID>>

\* variant: the UPDATE leaves rejection_reason as it is
UpdateRow_keepsReason(row, r, now) ==
    IF row.id = r.id /\ row.user_id = r.user
      THEN [row EXCEPT !.name = r.name, !.selections_json = r.selections,
                       !.status = statusDraft, !.updated_at = now]
      ELSE row

\* UPDATE designs SET name, selections_json, status, rejection_reason = NULL,
\* updated_at WHERE id = ? AND user_id = ?
UpdateRow(row, r, now) ==
    IF row.id = r.id /\ row.user_id = r.user
      THEN [row EXCEPT !.name = r.name, !.selections_json = r.selections,
                       !.status = statusDraft, !.rejection_reason = NullString,
                       !.updated_at = now]
      ELSE row

UpdateDesignExec(p) ==
    /\ req[p].pc = "update"
    /\ \E now \in Now :
          /\ designs' = [i \in 1..Len(designs) |-> UpdateRow(designs[i], req[p], now)]
          /\ clock' = now
          /\ Finish(p, writeJSON("update", req[p].id, 200,
                 designRecord(req[p].id, req[p].name, req[p].selections, statusDraft,
                              NullString, req[p].created_at, now)))
    /\ submittedLog' = Log(designs')
    /\ UNCHANGED started
    /\ UNCHANGED <<users, registerLog, savedDesigns, submittingDesignID>>

\* a handler that goes on to setDesignStatus(id, status, rejectionReason)
CallSetDesignStatus(p, op, id, user, status, reason) ==
    /\ req' = [req EXCEPT ![p] =
          [op |-> op, pc |-> "setStatus", id |-> id, user |-> user, name |-> <<>>,
           selections |-> NoSelections, status |-> status, reason |-> reason,
           created_at |-> 0]]
    /\ UNCHANGED resp

\* POST /designs/{id}/submit, up to setDesignStatus
handleSubmitDesign(p, user, id) ==
    /\ Accept(p)
    /\ IF id <= 0
         THEN Finish(p, writeError("submit", id, 400, "design id is invalid"))
       ELSE IF ~RowExists(id)
         THEN Finish(p, writeError("submit", id, 404, "design not found"))
       ELSE IF ~IsOwner(designs[id], user)
         THEN Finish(p, writeError("submit", id, 404, "design not found"))
       ELSE IF submitStatusError(designs[id].status) # ""
         THEN Finish(p, writeError("submit", id, 409,
                                   submitStatusError(designs[id].status)))
       ELSE IF validateSubmissionSelections(designs[id].selections_json) # ""
         THEN Finish(p, writeError("submit", id, 400,
                                   validateSubmissionSelections(designs[id].selections_json)))
       ELSE CallSetDesignStatus(p, "submit", id, user, statusSubmitted, NullString)
    /\ UNCHANGED <<designs, clock, submittedLog>>
    /\ UNCHANGED <<users, registerLog, savedDesigns, submittingDesignID>>

\* the headers requireAdminSecret lets through
AuthorisedHeaders == {hdr \in CredentialHeaders : requireAdminSecret(hdr)}

\* POST /admin/designs/{id}/approve, up to setDesignStatus
handleAdminApproveDesign(p, hdr, id) ==
    /\ Accept(p)
    /\ IF hdr \notin AuthorisedHeaders
         THEN Finish(p, writeError("approve", id, 401, "admin authorization failed"))
       ELSE IF id <= 0
         THEN Finish(p, writeError("approve", id, 400, "design id is invalid"))
       ELSE IF ~RowExists(id)
         THEN Finish(p, writeError("approve", id, 404, "design not found"))
       ELSE IF ~adminStatusOK(designs[id].status)
         THEN Finish(p, writeError("approve", id, 409,
                                   "only submitted designs can be approved"))
       ELSE CallSetDesignStatus(p, "approve", id, 0, statusApproved, NullString)
    /\ UNCHANGED <<designs, clock, submittedLog>>
    /\ UNCHANGED <<users, registerLog, savedDesigns, submittingDesignID>>

\* POST /admin/designs/{id}/reject, up to setDesignStatus
handleAdminRejectDesign(p, hdr, id, body) ==
    /\ Accept(p)
    /\ IF hdr \notin AuthorisedHeaders
         THEN Finish(p, writeError("reject", id, 401, "admin authorization failed"))
       ELSE IF id <= 0
         THEN Finish(p, writeError("reject", id, 400, "design id is invalid"))
       ELSE IF ~RowExists(id)
         THEN Finish(p, writeError("reject", id, 404, "design not found"))
       ELSE IF ~adminStatusOK(designs[id].status)
         THEN Finish(p, writeError("reject", id, 409,
                                   "only submitted designs can be rejected"))
       ELSE IF ~body.ok
         THEN Finish(p, writeError("reject", id, 400, "invalid JSON payload"))
       ELSE IF rejectReason(body) = <<>>
         THEN Finish(p, writeError("reject", id, 400, "rejection reason is required"))
       ELSE CallSetDesignStatus(p, "reject", id, 0, statusRejected,
                                ValidString(rejectReason(body)))
    /\ UNCHANGED <<designs, clock, submittedLog>>
    /\ UNCHANGED <<users, registerLog, savedDesigns, submittingDesignID>>

\* variant: the UPDATE sets status and updated_at only
SetStatusRow_statusOnly(row, r, now) ==
    IF row.id = r.id
      THEN [row EXCEPT !.status = r.status, !.updated_at = now]
      ELSE row

\* variant: a nil reason leaves the stored reason as it is
SetStatusRow_keepsReason(row, r, now) ==
    IF row.id = r.id
      THEN [row EXCEPT !.status = r.status,
                       !.rejection_reason = IF r.reason.Valid THEN r.reason ELSE @,
                       !.updated_at = now]
      ELSE row

\* setDesignStatus, first statement:
\* UPDATE designs SET status = ?, rejection_reason = ?, updated_at = ? WHERE id = ?
SetStatusRow(row, r, now) ==
    IF row.id = r.id
      THEN [row EXCEPT !.status = r.status, !.rejection_reason = r.reason,
                       !.updated_at = now]
      ELSE row

setDesignStatus(p) ==
    /\ req[p].pc = "setStatus"
    /\ \E now \in Now :
          /\ designs' = [i \in 1..Len(designs) |-> SetStatusRow(designs[i], req[p], now)]
          /\ clock' = now
    /\ req' = [req EXCEPT ![p].pc = "find"]
    /\ submittedLog' = Log(designs')
    /\ UNCHANGED <<resp, started>>
    /\ UNCHANGED <<users, registerLog, savedDesigns, submittingDesignID>>

\* setDesignStatus, second statement: findDesignByID, whose record the
\* handler writes as the response
setDesignStatusFind(p) ==
    /\ req[p].pc = "find"
    /\ Finish(p, writeJSON(req[p].op, req[p].id, 200,
                           RowRecord(designs[req[p].id])))
    /\ UNCHANGED <<designs, clock, started, submittedLog>>
    /\ UNCHANGED <<users, registerLog, savedDesigns, submittingDesignID>>

Next ==
    \/ \E p \in Procs, user \in Users, body \in Bodies : handleCreateDesign(p, user, body)
    \/ \E p \in Procs, user \in Users, id \in PathIDs : handleGetDesign(p, user, id)
    \/ \E p \in Procs, user \in Users, id \in PathIDs, body \in Bodies :
          handleUpdateDesign(p, user, id, body)
    \/ \E p \in Procs : UpdateDesignExec(p)
    \/ \E p \in Procs, user \in Users, id \in PathIDs : handleSubmitDesign(p, user, id)
    \/ \E p \in Procs, hdr \in AdminHeaders, id \in PathIDs :
          handleAdminApproveDesign(p, hdr, id)
    \/ \E p \in Procs, hdr \in AdminHeaders, id \in PathIDs, body \in RejectBodies :
          handleAdminRejectDesign(p, hdr, id, body)
    \/ \E p \in Procs : setDesignStatus(p)
    \/ \E p \in Procs : setDesignStatusFind(p)

Spec == Init /\ [][Next]_vars

(* ------------------------------ properties ---------------------------- *)
DesignIDs == 1..Len(designs)

\* a request body the Selection Validator accepts
ValidBody(body) == body.ok /\ \A v \in validateSelections(body.Selections) : v.err = ""

\* the Submission Gate, stated on validated selections
PassesGate(selections) ==
    /\ material_9 \in DOMAIN selections
    /\ material_3 \in DOMAIN selections
    /\ selections[material_3].PatternID = NONE

\* the step is the first statement of a request of kind op on connection p
Serves(p, op) ==
    /\ ~Busy(p)
    /\ started' = started + 1
    /\ IF Busy(p)' THEN req'[p].op = op ELSE resp'.op = op

\* the design id in the path of the request that step serves
PathID(p) == IF Busy(p)' THEN req'[p].id ELSE resp'.id

\* the step is the UPDATE of setDesignStatus, called by the handler of kind op
WritesStatus(p, op) == req[p].pc = "setStatus" /\ req[p].op = op /\ setDesignStatus(p)

ValidBodies == {body \in Bodies : ValidBody(body)}

\* C1: once a design is APPROVED the owner's updates and submits on it fail
\* with a conflict, and no step changes its status, selections, name or
\* rejection reason.
C1_ApprovedIsTerminal ==
    [][\A d \in DesignIDs :
         designs[d].status = statusApproved =>
           /\ designs'[d].status = designs[d].status
           /\ designs'[d].selections_json = designs[d].selections_json
           /\ designs'[d].name = designs[d].name
           /\ designs'[d].rejection_reason = designs[d].rejection_reason
           /\ \A p \in Procs :
                /\ (Serves(p, "submit") /\ handleSubmitDesign(p, designs[d].user_id, d)) =>
                     /\ resp'.code = 409
                     /\ resp'.error = "approved designs cannot be re-submitted"
                /\ Serves(p, "update") =>
                     \A body \in ValidBodies :
                        handleUpdateDesign(p, designs[d].user_id, d, body) =>
                           /\ ~Busy(p)'
                           /\ resp'.code = 409
      ]_vars

\* C2: whenever a design is APPROVED, its stored selections are selections it
\* held at some moment while its status was SUBMITTED.
C2_ApprovedContentWasSubmitted ==
    \A d \in DesignIDs :
        designs[d].status = statusApproved => designs[d].selections_json \in submittedLog[d]

\* C3: the status becomes APPROVED or REJECTED only in a step taken from
\* SUBMITTED, and becomes SUBMITTED only in a step taken from DRAFT or REJECTED.
C3_TransitionsAreAtomic ==
    [][\A d \in DesignIDs :
         designs'[d].status # designs[d].status =>
           /\ designs'[d].status \in {statusApproved, statusRejected} =>
                 designs[d].status = statusSubmitted
           /\ designs'[d].status = statusSubmitted =>
                 designs[d].status \in {statusDraft, statusRejected}
      ]_vars

\* C4: get, update and submit by an actor who does not own the design answer
\* 404 "design not found", as they do for an id no design has, and leave the
\* table unchanged.
C4_NonOwnerGetsNotFound ==
    [][\A p \in Procs :
         LET missing == Len(designs) + 1
             d == PathID(p)
             NotFound(op, id) == writeError(op, id, 404, "design not found")
         IN
         /\ (Serves(p, "get") /\ d \in DesignIDs) =>
              \A user \in Users :
                 (designs[d].user_id # user /\ handleGetDesign(p, user, d)) =>
                    /\ resp' = NotFound("get", d)
                    /\ designs' = designs /\ ~Busy(p)'
         /\ (Serves(p, "get") /\ d = missing) =>
              \A user \in Users :
                 handleGetDesign(p, user, missing) => resp' = NotFound("get", missing)
         /\ (Serves(p, "submit") /\ d \in DesignIDs) =>
              \A user \in Users :
                 (designs[d].user_id # user /\ handleSubmitDesign(p, user, d)) =>
                    /\ resp' = NotFound("submit", d)
                    /\ designs' = designs /\ ~Busy(p)'
         /\ (Serves(p, "submit") /\ d = missing) =>
              \A user \in Users :
                 handleSubmitDesign(p, user, missing) => resp' = NotFound("submit", missing)
         /\ (Serves(p, "update") /\ d \in DesignIDs) =>
              \A user \in Users, body \in Bodies :
                 (designs[d].user_id # user /\ handleUpdateDesign(p, user, d, body)) =>
                    /\ resp' = NotFound("update", d)
                    /\ designs' = designs /\ ~Busy(p)'
         /\ (Serves(p, "update") /\ d = missing) =>
              \A user \in Users, body \in Bodies :
                 handleUpdateDesign(p, user, missing, body) =>
                    resp' = NotFound("update", missing)
      ]_vars

\* the only request so far was refused on a design that was stored when it
\* came, so it came from somebody who is not the owner
C4_Witness ==
    /\ started = 1
    /\ resp.op \in {"get", "update", "submit"}
    /\ resp.code = 404
    /\ resp.id \in DesignIDs
    /\ designs[resp.id].status # statusDraft

\* C5: an owner's update of a SUBMITTED design is refused and leaves the
\* design SUBMITTED with its selections unchanged.
C5_UpdateRefusedWhenSubmitted ==
    [][\A p \in Procs :
         /\ Serves(p, "update") =>
              \A d \in DesignIDs :
                 designs[d].status = statusSubmitted =>
                    \A body \in ValidBodies :
                       handleUpdateDesign(p, designs[d].user_id, d, body) =>
                          /\ ~Busy(p)'
                          /\ resp'.code >= 400
         /\ (/\ req[p].pc = "update"
             /\ designs[req[p].id].status = statusSubmitted
             /\ UpdateDesignExec(p)) =>
               /\ designs'[req[p].id].status = statusSubmitted
               /\ designs'[req[p].id].selections_json = designs[req[p].id].selections_json
      ]_vars

\* C6: a submit by the owner of a DRAFT or REJECTED design whose selections
\* pass the Submission Gate goes on to write SUBMITTED, and that write leaves
\* the selections, name, owner and creation time as they were.
C6_SubmitMovesToSubmitted ==
    [][\A p \in Procs :
         /\ Serves(p, "submit") =>
              \A d \in DesignIDs \cap {PathID(p)} :
                 (/\ designs[d].status \in {statusDraft, statusRejected}
                  /\ PassesGate(designs[d].selections_json)
                  /\ handleSubmitDesign(p, designs[d].user_id, d)) =>
                    /\ req'[p].pc = "setStatus"
                    /\ req'[p].op = "submit"
                    /\ req'[p].id = d
                    /\ req'[p].status = statusSubmitted
         /\ WritesStatus(p, "submit") =>
               LET d == req[p].id
               IN  /\ designs'[d].status = statusSubmitted
                   /\ designs'[d].selections_json = designs[d].selections_json
                   /\ designs'[d].name = designs[d].name
                   /\ designs'[d].user_id = designs[d].user_id
                   /\ designs'[d].created_at = designs[d].created_at
      ]_vars

C6_Witness ==
    /\ resp.op = "submit"
    /\ resp.code = 200
    /\ resp.body[1].status = statusSubmitted
    /\ designs[resp.id].status = statusSubmitted
    /\ PassesGate(designs[resp.id].selections_json)

\* C7: a submit of a SUBMITTED design answers 409 "design is already
\* submitted" and changes nothing in the table.
C7_ResubmitIsConflict ==
    [][\A p \in Procs :
         Serves(p, "submit") =>
            \A d \in DesignIDs :
               (/\ designs[d].status = statusSubmitted
                /\ handleSubmitDesign(p, designs[d].user_id, d)) =>
                  /\ resp' = writeError("submit", d, 409,
                                        "design is already submitted")
                  /\ designs' = designs
                  /\ ~Busy(p)'
      ]_vars

C7_Witness ==
    /\ resp.op = "submit"
    /\ resp.code = 409
    /\ resp.error = "design is already submitted"
    /\ designs[resp.id].status = statusSubmitted

\* C8: an authorised approve or reject of a design that is not SUBMITTED
\* answers 409 and changes nothing, whatever reason the reject carries.
C8_AdminRefusedUnlessSubmitted ==
    [][\A p \in Procs :
         /\ Serves(p, "approve") =>
              \A d \in DesignIDs \cap {PathID(p)} :
                 designs[d].status # statusSubmitted =>
                    \A hdr \in AuthorisedHeaders :
                       handleAdminApproveDesign(p, hdr, d) =>
                          /\ resp' = writeError("approve", d, 409,
                                                "only submitted designs can be approved")
                          /\ designs' = designs /\ ~Busy(p)'
         /\ Serves(p, "reject") =>
              \A d \in DesignIDs \cap {PathID(p)} :
                 designs[d].status # statusSubmitted =>
                    \A hdr \in AuthorisedHeaders, body \in RejectBodies :
                       handleAdminRejectDesign(p, hdr, d, body) =>
                          /\ resp' = writeError("reject", d, 409,
                                                "only submitted designs can be rejected")
                          /\ designs' = designs /\ ~Busy(p)'
      ]_vars

C8_Witness ==
    /\ resp.op = "reject"
    /\ resp.code = 409
    /\ designs[resp.id].status = statusApproved

\* C9: an authorised approve of a SUBMITTED design goes on to write APPROVED
\* with a null rejection reason, and that write leaves the selections, name
\* and owner as they were.
C9_ApproveSetsApproved ==
    [][\A p \in Procs :
         /\ Serves(p, "approve") =>
              \A d \in DesignIDs :
                 designs[d].status = statusSubmitted =>
                    \A hdr \in AuthorisedHeaders :
                       handleAdminApproveDesign(p, hdr, d) =>
                          /\ req'[p].pc = "setStatus"
                          /\ req'[p].op = "approve"
                          /\ req'[p].id = d
         /\ WritesStatus(p, "approve") =>
               LET d == req[p].id
               IN  /\ designs'[d].status = statusApproved
                   /\ designs'[d].rejection_reason = NullString
                   /\ designs'[d].selections_json = designs[d].selections_json
                   /\ designs'[d].name = designs[d].name
                   /\ designs'[d].user_id = designs[d].user_id
      ]_vars

C9_Witness ==
    /\ resp.op = "approve"
    /\ resp.code = 200
    /\ resp.body[1].status = statusApproved
    /\ designs[resp.id].status = statusApproved
    /\ designs[resp.id].rejection_reason = NullString

\* reject bodies that decode, by whether the reason is empty once trimmed
BlankReasonBodies == {body \in RejectBodies : body.ok /\ TrimSpace(body.Reason) = <<>>}

ReasonBodies == {body \in RejectBodies : body.ok /\ TrimSpace(body.Reason) # <<>>}

\* the parts of C10 that do not depend on how the reason is stored
RejectBlankReasonFails(p) ==
    Serves(p, "reject") =>
       \A d \in DesignIDs :
          designs[d].status = statusSubmitted =>
             \A hdr \in AuthorisedHeaders, body \in BlankReasonBodies :
                handleAdminRejectDesign(p, hdr, d, body) =>
                   /\ resp' = writeError("reject", d, 400, "rejection reason is required")
                   /\ ~Busy(p)'
                   /\ designs' = designs
                   /\ designs'[d].status = statusSubmitted
                   /\ designs'[d].rejection_reason = NullString

RejectWritesReason(p) ==
    WritesStatus(p, "reject") =>
        /\ designs'[req[p].id].status = statusRejected
        /\ designs'[req[p].id].rejection_reason = req[p].reason

\* C10 as claimed: a reject whose reason is empty after trimming answers 400
\* and leaves the design SUBMITTED with a null reason; any other reject
\* stores REJECTED with exactly the reason string that was sent.
C10_RejectStoresExactReason ==
    [][\A p \in Procs :
         /\ RejectBlankReasonFails(p)
         /\ RejectWritesReason(p)
         /\ Serves(p, "reject") =>
              \A d \in DesignIDs :
                 designs[d].status = statusSubmitted =>
                    \A hdr \in AuthorisedHeaders, body \in ReasonBodies :
                       handleAdminRejectDesign(p, hdr, d, body) =>
                          /\ req'[p].pc = "setStatus"
                          /\ req'[p].id = d
                          /\ req'[p].reason = ValidString(body.Reason)
      ]_vars

\* C10 as amended: the reason stored is the reason sent with its leading and
\* trailing white space removed.
C10_RejectStoresTrimmedReason ==
    [][\A p \in Procs :
         /\ RejectBlankReasonFails(p)
         /\ RejectWritesReason(p)
         /\ Serves(p, "reject") =>
              \A d \in DesignIDs :
                 designs[d].status = statusSubmitted =>
                    \A hdr \in AuthorisedHeaders, body \in ReasonBodies :
                       handleAdminRejectDesign(p, hdr, d, body) =>
                          /\ req'[p].pc = "setStatus"
                          /\ req'[p].id = d
                          /\ req'[p].reason = ValidString(TrimSpace(body.Reason))
      ]_vars

C10_Witness ==
    /\ resp.op = "reject"
    /\ resp.code = 200
    /\ designs[resp.id].status = statusRejected
    /\ designs[resp.id].rejection_reason = ValidString(<<"f", "i", "x">>)
    /\ resp.body[1].rejectionReason = ValidString(<<"f", "i", "x">>)

(* ------------------- the validator and the gate alone ------------------ *)
\* FnSpec calls validateSelections and validateSubmissionSelections once, on
\* an argument drawn from every selections map of at most MaxEntries entries:
\* connection 1 holds the argument, and the call writes its result to resp.
colorNoHash == <<"1","a","2","b","3","c">>
colorPadded == <<" ">> \o colorB \o <<"\n">>
colorBad == <<"#","1","2","G">>
badFinish == <<"g","l","o","s","s">>
badPattern == PATTERN_ \o <<"4">>

SelectionMaps(keys, values) ==
    UNION {[ks -> values] : ks \in {x \in SUBSET keys : Cardinality(x) <= MaxEntries}}

\* what a client can send: catalog and non-catalog keys, colours in either
\* case, padded, without '#' and malformed, finishes and patterns in and out
\* of the allowed sets
ValidatorInputs ==
    SelectionMaps({material_9, material_3, material_2},
                  [ColorHex : {colorA, colorPadded, colorNoHash, colorBad},
                   Finish : {GLOSS, MATTE, badFinish},
                   PatternID : {NONE, PATTERN_1, badPattern}])

\* what the table can hold: validated selections
GateInputs ==
    SelectionMaps({material_9, material_3, material_1},
                  [ColorHex : {colorB}, Finish : {GLOSS},
                   PatternID : defaultCatalog.AllowedPatternIDs])

Call(op, selections) ==
    [IdleReq EXCEPT !.op = op, !.pc = "call", !.selections = selections]

FnInit ==
    /\ users = StartUsers
    /\ registerLog = <<>>
    /\ savedDesigns = <<>>
    /\ submittingDesignID = <<>>
    /\ designs = <<>>
    /\ clock = 0
    /\ resp = NoResp
    /\ started = 0
    /\ submittedLog = [d \in 1..MaxDesigns |-> {}]
    /\ \E call \in {Call("validateSelections", x) : x \in ValidatorInputs}
                \cup {Call("validateSubmissionSelections", x) : x \in GateInputs} :
          req = [p \in Procs |-> IF p = 1 THEN call ELSE IdleReq]

Return(op, err, value) ==
    /\ resp' = [op |-> op, id |-> 0, code |-> 0, error |-> err, body |-> value]
    /\ req' = [req EXCEPT ![1].pc = "done"]
    /\ UNCHANGED <<designs, clock, started, submittedLog>>
    /\ UNCHANGED <<users, registerLog, savedDesigns, submittingDesignID>>

CallValidateSelections ==
    /\ req[1].pc = "call"
    /\ req[1].op = "validateSelections"
    /\ \E v \in validateSelections(req[1].selections) :
          Return("validateSelections", v.err, IF v.err = "" THEN <<v.value>> ELSE <<>>)

CallValidateSubmissionSelections ==
    /\ req[1].pc = "call"
    /\ req[1].op = "validateSubmissionSelections"
    /\ Return("validateSubmissionSelections",
              validateSubmissionSelections(req[1].selections), <<>>)

FnNext ==
    \/ CallValidateSelections
    \/ CallValidateSubmissionSelections

FnSpec == FnInit /\ [][FnNext]_vars

\* the call of op has returned; Arg is the argument it was given
Returned(op) == req[1].pc = "done" /\ req[1].op = op
Arg == req[1].selections

\* C14: checkSubmittable fails with MissingBodyPaint for every selection set
\* without the key material_9, whatever its other entries are.
C14_NoBodyPaintIsMissingBodyPaint ==
    (Returned("validateSubmissionSelections") /\ material_9 \notin DOMAIN Arg)
       => resp.error = errMissingBodyPaint

\* C15: checkSubmittable fails with MissingGlass for every validated
\* selection set that has the key material_9 and not the key material_3.
C15_NoGlassIsMissingGlass ==
    (/\ Returned("validateSubmissionSelections")
     /\ material_9 \in DOMAIN Arg
     /\ material_3 \notin DOMAIN Arg)
       => resp.error = errMissingGlass

C15_Witness ==
    /\ Returned("validateSubmissionSelections")
    /\ DOMAIN Arg = {material_9, material_1}
    /\ Arg[material_1].PatternID = PATTERN_1
    /\ resp.error = errMissingGlass

\* C16: for a validated selection set with both material_9 and material_3,
\* checkSubmittable succeeds exactly when the pattern of material_3 is NONE
\* and fails with GlassPatternNotNone when it is PATTERN_1, PATTERN_2 or
\* PATTERN_3; the patterns of the other keys do not matter.
C16_GlassPatternDecides ==
    (/\ Returned("validateSubmissionSelections")
     /\ material_9 \in DOMAIN Arg
     /\ material_3 \in DOMAIN Arg)
       => /\ resp.error = "" <=> Arg[material_3].PatternID = NONE
          /\ Arg[material_3].PatternID \in {PATTERN_1, PATTERN_2, PATTERN_3}
                => resp.error = errGlassPattern

C16_Witness ==
    /\ Returned("validateSubmissionSelections")
    /\ material_9 \in DOMAIN Arg
    /\ material_3 \in DOMAIN Arg
    /\ Arg[material_9].PatternID = PATTERN_2
    /\ Arg[material_3].PatternID = NONE
    /\ resp.error = ""

\* a map validate must accept according to C18: non-empty, catalog keys, each
\* colour a '#' and six hex digits in either case, finish and pattern allowed
WellFormedInput(selections) ==
    /\ DOMAIN selections # {}
    /\ \A k \in DOMAIN selections :
          /\ k \in {material_1, material_3, material_5, material_6,
                    material_7, material_8, material_9}
          /\ Len(selections[k].ColorHex) = 7
          /\ selections[k].ColorHex[1] = "#"
          /\ \A i \in 2..7 : selections[k].ColorHex[i] \in HexChars
          /\ selections[k].Finish \in {GLOSS, MATTE}
          /\ selections[k].PatternID \in {NONE, PATTERN_1, PATTERN_2, PATTERN_3}

\* C18: validate accepts every well-formed map and returns a map with the
\* same keys, each colour uppercased, each finish and pattern as given; the
\* call leaves its argument as it was.
C18_WellFormedIsAccepted ==
    [][CallValidateSelections =>
         /\ req'[1].selections = req[1].selections
         /\ WellFormedInput(Arg) =>
              /\ resp'.error = ""
              /\ Len(resp'.body) = 1
              /\ DOMAIN resp'.body[1] = DOMAIN Arg
              /\ \A k \in DOMAIN Arg :
                    /\ resp'.body[1][k].ColorHex = ToUpper(Arg[k].ColorHex)
                    /\ resp'.body[1][k].Finish = Arg[k].Finish
                    /\ resp'.body[1][k].PatternID = Arg[k].PatternID
      ]_vars

C18_Witness ==
    /\ Returned("validateSelections")
    /\ DOMAIN Arg = {material_9, material_3}
    /\ Arg[material_9] = [ColorHex |-> colorA, Finish |-> MATTE, PatternID |-> PATTERN_1]
    /\ resp.error = ""
    /\ resp.body[1][material_9].ColorHex # colorA

\* the faults of one entry under a catalog key
EntryFaults(value) ==
    {e \in {errInvalidColor, errInvalidFinish, errInvalidPattern} :
        \/ e = errInvalidColor /\ ~hexRegex(ToUpper(TrimSpace(value.ColorHex)))
        \/ e = errInvalidFinish /\ value.Finish \notin {GLOSS, MATTE}
        \/ e = errInvalidPattern
             /\ value.PatternID \notin {NONE, PATTERN_1, PATTERN_2, PATTERN_3}}

HasUnknownKey(selections) ==
    \E k \in DOMAIN selections : k \notin defaultCatalog.Materials

\* C19, as claimed: validate fails with UnknownMaterialKey, and with no other
\* error, for every map that has a key absent from the catalog.
C19_UnknownKeyAlwaysReported ==
    (Returned("validateSelections") /\ HasUnknownKey(Arg))
       => resp.error = errKeyNotAllowed

\* C19, as the code has it: validate fails for every map that has a key
\* absent from the catalog, and the error is UnknownMaterialKey or a fault of
\* an entry under a catalog key; it is UnknownMaterialKey when no entry under
\* a catalog key has a fault.
C19_UnknownKeyFails ==
    (Returned("validateSelections") /\ HasUnknownKey(Arg))
       => /\ resp.error # ""
          /\ resp.body = <<>>
          /\ \/ resp.error = errKeyNotAllowed
             \/ \E k \in DOMAIN Arg \cap defaultCatalog.Materials :
                   resp.error \in EntryFaults(Arg[k])

C19_Witness ==
    /\ Returned("validateSelections")
    /\ DOMAIN Arg = {material_2, material_9}
    /\ resp.error = errInvalidColor

\* the normalization C20 describes: trim, uppercase, and a leading '#' added
\* when there is none
HashPrefixed(color) ==
    LET upper == ToUpper(TrimSpace(color))
    IN  IF upper # <<>> /\ upper[1] = "#" THEN upper ELSE <<"#">> \o upper

\* C20: validate matches the colour against the pattern after trimming,
\* uppercasing and adding a leading '#': six hex digits without '#' are
\* accepted and stored as '#RRGGBB', and InvalidColor is reported only for a
\* colour that fails the pattern after that normalization.
C20_HashIsAdded ==
    Returned("validateSelections") =>
       /\ (/\ DOMAIN Arg # {}
           /\ \A k \in DOMAIN Arg :
                 /\ k \in defaultCatalog.Materials
                 /\ hexRegex(HashPrefixed(Arg[k].ColorHex))
                 /\ Arg[k].Finish \in {GLOSS, MATTE}
                 /\ Arg[k].PatternID \in {NONE, PATTERN_1, PATTERN_2, PATTERN_3})
             => /\ resp.error = ""
                /\ \A k \in DOMAIN Arg :
                      resp.body[1][k].ColorHex = HashPrefixed(Arg[k].ColorHex)
       /\ resp.error = errInvalidColor =>
             \E k \in DOMAIN Arg : ~hexRegex(HashPrefixed(Arg[k].ColorHex))

(* ------------------------ the lifecycle, continued --------------------- *)
Statuses == {statusDraft, statusSubmitted, statusApproved, statusRejected}

\* what the Selection Validator is to return for a payload it accepts
NormalizedOutput(selections) ==
    [k \in DOMAIN selections |->
        [ColorHex |-> ToUpper(TrimSpace(selections[k].ColorHex)),
         Finish |-> selections[k].Finish,
         PatternID |-> selections[k].PatternID]]

\* C11: an owner's update of a DRAFT or REJECTED design with a valid payload
\* goes on to write status DRAFT, a null rejection reason and the validator's
\* output for the payload, and leaves id, owner and createdAt alone; an
\* update with an invalid payload changes nothing.
C11_UpdateResetsToDraft ==
    [][\A p \in Procs :
         /\ Serves(p, "update") =>
              \A d \in DesignIDs \cap {PathID(p)}, body \in Bodies :
                 (/\ designs[d].status \in {statusDraft, statusRejected}
                  /\ handleUpdateDesign(p, designs[d].user_id, d, body)) =>
                    /\ designs' = designs
                    /\ IF body \in ValidBodies
                         THEN /\ req'[p].pc = "update"
                              /\ req'[p].id = d
                              /\ req'[p].user = designs[d].user_id
                              /\ req'[p].selections = NormalizedOutput(body.Selections)
                         ELSE /\ ~Busy(p)'
                              /\ resp'.code = 400
         /\ (req[p].pc = "update" /\ UpdateDesignExec(p)) =>
              /\ Len(designs') = Len(designs)
              /\ \A d \in DesignIDs :
                    IF d = req[p].id /\ designs[d].user_id = req[p].user
                      THEN /\ designs'[d].status = statusDraft
                           /\ designs'[d].rejection_reason = NullString
                           /\ designs'[d].selections_json = req[p].selections
                           /\ designs'[d].id = designs[d].id
                           /\ designs'[d].user_id = designs[d].user_id
                           /\ designs'[d].created_at = designs[d].created_at
                           /\ resp'.code = 200
                           /\ resp'.body[1].status = statusDraft
                      ELSE designs'[d] = designs[d]
      ]_vars

\* the only request so far is an update of a stored draft, and it is done
C11_Witness ==
    /\ started = 1
    /\ submittedLog[1] = {}
    /\ resp.op = "update"
    /\ resp.code = 200
    /\ designs[1].status = statusDraft
    /\ designs[1].selections_json = NormalizedOutput(selPattern)
    /\ designs[1].rejection_reason = NullString

\* C12: a create with valid selections stores one more design, with status
\* DRAFT, a null rejection reason and the creating user as owner, and leaves
\* the other designs alone; a create with invalid selections stores nothing;
\* the status of every design is one of the four statuses.
C12_CreatedAsDraft ==
    [][/\ \A d \in DesignIDs : designs[d].status \in Statuses
       /\ \A d \in 1..Len(designs') : designs'[d].status \in Statuses
       /\ \A p \in Procs :
            Serves(p, "create") =>
              \A user \in Users, body \in Bodies :
                 handleCreateDesign(p, user, body) =>
                    IF body \in ValidBodies
                      THEN /\ Len(designs') = Len(designs) + 1
                           /\ SubSeq(designs', 1, Len(designs)) = designs
                           /\ designs'[Len(designs')].status = statusDraft
                           /\ designs'[Len(designs')].rejection_reason = NullString
                           /\ designs'[Len(designs')].user_id = user
                           /\ designs'[Len(designs')].selections_json =
                                 NormalizedOutput(body.Selections)
                           /\ resp'.code = 201
                      ELSE /\ designs' = designs
                           /\ resp'.code = 400
      ]_vars

C12_Witness ==
    /\ resp.op = "create"
    /\ resp.code = 201
    /\ Len(designs) = 1
    /\ designs[1].user_id = MaxUsers
    /\ designs[1].status = statusDraft
    /\ designs[1].rejection_reason = NullString

\* GateSpec: submit requests on one stored DRAFT or REJECTED design whose
\* selections range over every validated map of at most MaxEntries entries.
GateRows ==
    {[id |-> 1, user_id |-> 1, name |-> <<"A">>, selections_json |-> x,
      status |-> c.status, rejection_reason |-> c.reason,
      created_at |-> 0, updated_at |-> 0] :
        x \in GateInputs \ {NoSelections},
        c \in {[status |-> statusDraft, reason |-> NullString],
               [status |-> statusRejected, reason |-> ValidString(<<"f", "i", "x">>)]}}

GateInit ==
    /\ users = StartUsers
    /\ registerLog = <<>>
    /\ savedDesigns = <<>>
    /\ submittingDesignID = <<>>
    /\ designs \in {<<row>> : row \in GateRows}
    /\ clock = 0
    /\ req = [p \in Procs |-> IdleReq]
    /\ resp = NoResp
    /\ started = 0
    /\ submittedLog =
          [d \in 1..MaxDesigns |->
             IF d <= Len(designs) /\ designs[d].status # statusDraft
               THEN {designs[d].selections_json} ELSE {}]

GateNext ==
    \/ \E p \in Procs, user \in Users, id \in PathIDs : handleSubmitDesign(p, user, id)
    \/ \E p \in Procs : setDesignStatus(p)
    \/ \E p \in Procs : setDesignStatusFind(p)

GateSpec == GateInit /\ [][GateNext]_vars

\* C13: an owner's submit of a DRAFT or REJECTED design that fails the
\* Submission Gate answers 400 with the gate's error and leaves the table,
\* hence the design's status, rejection reason, selections and updatedAt, as
\* it was.
C13_GateFailureChangesNothing ==
    [][\A p \in Procs :
         Serves(p, "submit") =>
            \A d \in DesignIDs \cap {PathID(p)} :
               (/\ designs[d].status \in {statusDraft, statusRejected}
                /\ ~PassesGate(designs[d].selections_json)
                /\ handleSubmitDesign(p, designs[d].user_id, d)) =>
                  /\ designs' = designs
                  /\ ~Busy(p)'
                  /\ resp'.code = 400
                  /\ resp'.error \in {errMissingBodyPaint, errMissingGlass, errGlassPattern}
      ]_vars

C13_Witness ==
    /\ started = 1
    /\ resp.op = "submit"
    /\ resp.code = 400
    /\ resp.error = errMissingGlass
    /\ designs[1].status = statusRejected
    /\ designs[1].rejection_reason = ValidString(<<"f", "i", "x">>)

\* a stored selections map as C17 requires it
WellFormedStored(selections) ==
    /\ DOMAIN selections # {}
    /\ \A k \in DOMAIN selections :
          /\ k \in {material_1, material_3, material_5, material_6,
                    material_7, material_8, material_9}
          /\ Len(selections[k].ColorHex) = 7
          /\ selections[k].ColorHex[1] = "#"
          /\ \A i \in 2..7 :
                selections[k].ColorHex[i] \in
                   {"0","1","2","3","4","5","6","7","8","9","A","B","C","D","E","F"}
          /\ selections[k].Finish \in {GLOSS, MATTE}
          /\ selections[k].PatternID \in {NONE, PATTERN_1, PATTERN_2, PATTERN_3}

\* C17: the selections of every stored design are a non-empty map of catalog
\* keys to an uppercase #RRGGBB colour, a finish GLOSS or MATTE and an allowed
\* pattern, whatever requests have been served.
C17_StoredSelectionsWellFormed ==
    \A d \in DesignIDs : WellFormedStored(designs[d].selections_json)

\* the selections an update sent with a lowercase colour are stored
C17_Witness ==
    /\ resp.op = "update"
    /\ resp.code = 200
    /\ Len(designs) = 1
    /\ designs[1].updated_at = MaxClock
    /\ material_9 \in DOMAIN designs[1].selections_json
    /\ designs[1].selections_json[material_9].ColorHex = ToUpper(colorA)

(* ------------------ payloads without selections ----------------------- *)
\* POST /designs and PUT /designs/{id} with bodies that carry selections and
\* bodies that carry none
PayloadBodies ==
    EmptyBodies \cup {[ok |-> TRUE, Name |-> <<"A">>, Selections |-> selGood]}

PayloadNext ==
    \E p \in Procs :
       \/ \E user \in Users, body \in PayloadBodies : handleCreateDesign(p, user, body)
       \/ \E user \in Users, id \in PathIDs, body \in PayloadBodies :
             handleUpdateDesign(p, user, id, body)
       \/ UpdateDesignExec(p)

PayloadSpec == Init /\ [][PayloadNext]_vars

\* C21: a create or update whose selections map has no entry (absent or
\* empty) fails: a create answers 400 "selections must include at least one
\* material", an update of the caller's own design answers the same, any
\* other update answers 404; in each case the request ends there and the
\* designs table is unchanged
C21_EmptySelectionsChangeNothing ==
    [][\A p \in Procs, user \in Users, body \in EmptyBodies :
          /\ handleCreateDesign(p, user, body) =>
                /\ resp'.code = 400 /\ resp'.error = "selections must include at least one material"
                /\ ~Busy(p)' /\ designs' = designs
          /\ \A id \in PathIDs :
                handleUpdateDesign(p, user, id, body) =>
                  /\ resp'.code \in {400, 404}
                  /\ id \in DesignIDs /\ designs[id].user_id = user =>
                        /\ resp'.code = 400
                        /\ resp'.error = "selections must include at least one material"
                  /\ ~Busy(p)' /\ designs' = designs]_vars

\* an update without selections was refused on a stored design
C21_Witness ==
    /\ resp.op = "update" /\ resp.error = "selections must include at least one material"
    /\ Len(designs) = 1 /\ resp.id = 1
    /\ designs[1].selections_json \in {selGood, selPattern}

(* ------------------ validating what was validated --------------------- *)
\* the map validateSelections returned is sent back and validated again, as
\* when a stored design is loaded and saved by PUT /designs/{id}
CallValidateSelectionsAgain ==
    /\ req[1].pc = "done"
    /\ req[1].op = "validateSelections"
    /\ resp.error = ""
    /\ \E v \in validateSelections(resp.body[1]) :
          /\ resp' = [op |-> "validateSelections", id |-> 0, code |-> 0,
                      error |-> v.err,
                      body |-> IF v.err = "" THEN <<v.value>> ELSE <<>>]
          /\ req' = [req EXCEPT ![1].pc = "again", ![1].selections = resp.body[1]]
    /\ UNCHANGED <<designs, clock, started, submittedLog>>
    /\ UNCHANGED <<users, registerLog, savedDesigns, submittingDesignID>>

AgainNext ==
    \/ CallValidateSelections
    \/ CallValidateSelectionsAgain

AgainInit ==
    /\ FnInit
    /\ req[1].op = "validateSelections"

AgainSpec == AgainInit /\ [][AgainNext]_vars

\* C22: validating a successful output S of validateSelections succeeds
\* and returns S itself
C22_ValidateIsIdempotent ==
    req[1].pc = "again" => resp.error = "" /\ resp.body = <<req[1].selections>>

\* the output of a call that changed its input (a lower-case colour) was
\* validated again
C22_Witness ==
    /\ req[1].pc = "again"
    /\ material_9 \in DOMAIN req[1].selections
    /\ req[1].selections[material_9].ColorHex =
          <<"#", "1", "A", "2", "B", "3", "C">>
    /\ resp.error = ""

(* ---------------------------- registration ---------------------------- *)
\* emailRegex: ^[^\s@]+@[^\s@]+\.[^\s@]+$
emailRegex(s) ==
    /\ \A i \in DOMAIN s : s[i] \notin WhiteSpace
    /\ Cardinality({i \in DOMAIN s : s[i] = "@"}) = 1
    /\ \E a \in DOMAIN s, d \in DOMAIN s :
          /\ s[a] = "@" /\ s[d] = "."
          /\ 1 < a /\ a + 1 < d /\ d < Len(s)

\* variant: the email is trimmed but keeps its case
canonicalEmail_keepsCase(email) == TrimSpace(email)

\* strings.TrimSpace(strings.ToLower(req.Email))
canonicalEmail(email) == TrimSpace(ToLower(email))

password8 == <<"p", "a", "s", "s", "w", "o", "r", "d">>

\* request bodies of POST /auth/register
RegisterBodies ==
    {[ok |-> TRUE, Email |-> <<"a", "@", "b", ".", "c">>, Password |-> password8],
     [ok |-> TRUE, Email |-> <<"A", "@", "b", ".", "C">>, Password |-> password8],
     [ok |-> TRUE, Email |-> <<" ", "a", "@", "B", ".", "c", "\n">>,
      Password |-> password8],
     [ok |-> TRUE, Email |-> <<"x", "@", "b", ".", "c">>, Password |-> password8],
     [ok |-> TRUE, Email |-> <<"a", "@", "b">>, Password |-> password8],
     [ok |-> TRUE, Email |-> <<"a", "@", "b", ".", "c">>,
      Password |-> <<" ", "p", "a", "s", "s", "w", "o", " ">>],
     [ok |-> FALSE, Email |-> <<>>, Password |-> <<>>]}

\* the answer of a registration, with the email its body carried
Answer(p, Email, response) ==
    /\ Finish(p, response)
    /\ registerLog' = Append(registerLog, [Email |-> Email, code |-> response.code])

\* POST /auth/register, up to the INSERT statement
handleRegister(p, body) ==
    /\ Accept(p)
    /\ IF ~body.ok
         THEN /\ Answer(p, body.Email, writeError("register", 0, 400, "invalid JSON payload"))
              /\ UNCHANGED clock
       ELSE IF ~emailRegex(canonicalEmail(body.Email))
         THEN /\ Answer(p, body.Email, writeError("register", 0, 400, "email is invalid"))
              /\ UNCHANGED clock
       ELSE IF Len(TrimSpace(body.Password)) < 8
         THEN /\ Answer(p, body.Email,
                    writeError("register", 0, 400,
                               "password must be at least 8 characters"))
              /\ UNCHANGED clock
       ELSE \E now \in Now :
              /\ req' = [req EXCEPT ![p] =
                    [op |-> "register", pc |-> "insert", Email |-> body.Email,
                     email |-> canonicalEmail(body.Email), created_at |-> now]]
              /\ clock' = now
              /\ UNCHANGED <<resp, registerLog>>
    /\ UNCHANGED <<designs, submittedLog, users, savedDesigns, submittingDesignID>>

\* INSERT INTO users(email, password_hash, created_at): email is UNIQUE
RegisterInsert(p) ==
    /\ req[p].pc = "insert"
    /\ IF \E i \in DOMAIN users : users[i].email = req[p].email
         THEN /\ Answer(p, req[p].Email,
                    writeError("register", 0, 409, "email already registered"))
              /\ UNCHANGED users
         ELSE LET id == Len(users) + 1
              IN  /\ users' = Append(users, [id |-> id, email |-> req[p].email])
                  /\ Answer(p, req[p].Email,
                        writeJSON("register", id, 201,
                                  [id |-> FormatInt(id), email |-> req[p].email,
                                   createdAt |-> req[p].created_at]))
    /\ UNCHANGED <<designs, clock, started, submittedLog, savedDesigns,
                   submittingDesignID>>

RegisterInit ==
    /\ designs = <<>>
    /\ clock = 0
    /\ req = [p \in Procs |-> IdleReq]
    /\ resp = NoResp
    /\ started = 0
    /\ submittedLog = [d \in 1..MaxDesigns |-> {}]
    /\ users = <<>>
    /\ registerLog = <<>>
    /\ savedDesigns = <<>>
    /\ submittingDesignID = <<>>

RegisterNext ==
    \E p \in Procs :
       \/ \E body \in RegisterBodies : handleRegister(p, body)
       \/ RegisterInsert(p)

RegisterSpec == RegisterInit /\ [][RegisterNext]_vars

\* the registrations answered other than 400 whose email, trimmed and in
\* lower case, is e
Registrations(e) ==
    {k \in DOMAIN registerLog :
        /\ registerLog[k].code # 400
        /\ ToLower(TrimSpace(registerLog[k].Email)) = e}

\* C23: of the well-formed registrations answered so far whose emails are
\* equal once trimmed and put in lower case, exactly one was answered 201 and
\* every other 409, in whatever order they were served; and no two stored
\* users have emails that are equal once trimmed and put in lower case
C23_OneAccountPerEmail ==
    /\ \A i, j \in DOMAIN users :
          i # j => ToLower(TrimSpace(users[i].email)) # ToLower(TrimSpace(users[j].email))
    /\ \A n \in DOMAIN registerLog :
          registerLog[n].code # 400 =>
            LET same == Registrations(ToLower(TrimSpace(registerLog[n].Email)))
            IN  /\ Cardinality({k \in same : registerLog[k].code = 201}) = 1
                /\ \A k \in same : registerLog[k].code \in {201, 409}

\* two registrations whose emails differ only in case and padding were both
\* answered: the first to reach its INSERT got 201, the second 409
C23_Witness ==
    /\ Len(registerLog) = 2
    /\ registerLog[1].Email # registerLog[2].Email
    /\ ToLower(TrimSpace(registerLog[1].Email)) =
          ToLower(TrimSpace(registerLog[2].Email))
    /\ registerLog[1].code = 201
    /\ registerLog[2].code = 409
    /\ Len(users) = 1

(* ------------------------------ listings ------------------------------ *)
MaxRows == 2

\* the orders a SELECT ... ORDER BY stamp DESC can return the rows ids in:
\* rows with equal stamps come in any order
Orderings(ids, stamp) ==
    {ord \in [1..Cardinality(ids) -> ids] :
        /\ \A i, j \in DOMAIN ord : i # j => ord[i] # ord[j]
        /\ \A i, j \in DOMAIN ord : i < j => stamp[ord[i]] >= stamp[ord[j]]}

\* variant: the WHERE user_id = ? is missing
listDesignsRows_all(user) == DOMAIN designs

\* SELECT ... FROM designs WHERE user_id = ?
listDesignsRows(user) == {d \in DOMAIN designs : designs[d].user_id = user}

\* GET /designs: ORDER BY created_at DESC
handleListDesigns(p, user) ==
    /\ Accept(p)
    /\ \E ord \in Orderings(listDesignsRows(user),
                             [d \in DOMAIN designs |-> designs[d].created_at]) :
          Finish(p, writeJSON("list", 0, 200,
                   [designs |-> [i \in DOMAIN ord |-> RowRecord(designs[ord[i]])]]))
    /\ UNCHANGED <<designs, clock, submittedLog>>
    /\ UNCHANGED <<users, registerLog, savedDesigns, submittingDesignID>>

\* variant: every design that is not a draft is listed
submissionRows_notDraft ==
    {d \in DOMAIN designs :
        /\ designs[d].status # statusDraft
        /\ \E u \in DOMAIN users : users[u].id = designs[d].user_id}

\* SELECT ... FROM designs d JOIN users u ON u.id = d.user_id WHERE d.status = ?
submissionRows ==
    {d \in DOMAIN designs :
        /\ designs[d].status = statusSubmitted
        /\ \E u \in DOMAIN users : users[u].id = designs[d].user_id}

adminSubmissionRecord(row) ==
    [createdAt |-> row.created_at, id |-> FormatInt(row.id),
     selections |-> row.selections_json, name |-> row.name,
     rejectionReason |-> row.rejection_reason, status |-> row.status,
     updatedAt |-> row.updated_at,
     userEmail |-> users[CHOOSE u \in DOMAIN users : users[u].id = row.user_id].email,
     userId |-> FormatInt(row.user_id)]

\* GET /admin/submissions: ORDER BY d.updated_at DESC
handleAdminListSubmissions(p, hdr) ==
    /\ Accept(p)
    /\ IF hdr \notin AuthorisedHeaders
         THEN Finish(p, writeError("submissions", 0, 401, "admin authorization failed"))
         ELSE \E ord \in Orderings(submissionRows,
                                   [d \in DOMAIN designs |-> designs[d].updated_at]) :
                Finish(p, writeJSON("submissions", 0, 200,
                         [designs |-> [i \in DOMAIN ord |->
                                         adminSubmissionRecord(designs[ord[i]])]]))
    /\ UNCHANGED <<designs, clock, submittedLog>>
    /\ UNCHANGED <<users, registerLog, savedDesigns, submittingDesignID>>

\* a table of up to MaxRows designs of any owners and statuses, written in
\* the same second or one second apart
ListRow(id, user, status, at) ==
    [id |-> id, user_id |-> user, name |-> <<"A">>,
     selections_json |-> Stored(selGood), status |-> status,
     rejection_reason |-> IF status = statusRejected
                            THEN ValidString(<<"f", "i", "x">>) ELSE NullString,
     created_at |-> at, updated_at |-> at]

ListInit ==
    /\ \E n \in 0..MaxRows, apart \in BOOLEAN :
         \E owner \in [1..n -> Users], status \in [1..n -> Statuses] :
            designs = [i \in 1..n |->
                         ListRow(i, owner[i], status[i], IF apart THEN i ELSE 0)]
    /\ clock = 0
    /\ req = [p \in Procs |-> IdleReq]
    /\ resp = NoResp
    /\ started = 0
    /\ submittedLog = [d \in 1..MaxDesigns |-> {}]
    /\ users = StartUsers
    /\ registerLog = <<>>
    /\ savedDesigns = <<>>
    /\ submittingDesignID = <<>>

ListNext ==
    \E p \in Procs :
       \/ \E user \in Users : handleListDesigns(p, user)
       \/ \E hdr \in CredentialHeaders : handleAdminListSubmissions(p, hdr)

ListSpec == ListInit /\ [][ListNext]_vars

\* the ids of the records of a listing
Listed(response) ==
    {response.body[1].designs[i].id : i \in DOMAIN response.body[1].designs}

\* C25: GET /designs of a user answers 200 with one record for each design
\* whose user_id is that user, of whatever status, and with no other record;
\* each record carries the status and selections of its row
C25_ListIsTheCallersDesigns ==
    [][\A p \in Procs, user \in Users :
          handleListDesigns(p, user) =>
            LET list == resp'.body[1].designs
            IN  /\ resp'.code = 200
                /\ Listed(resp') =
                      {FormatInt(d) : d \in {x \in DesignIDs : designs[x].user_id = user}}
                /\ Len(list) = Cardinality(Listed(resp'))
                /\ \A i \in DOMAIN list :
                      \E d \in DesignIDs :
                         /\ FormatInt(d) = list[i].id
                         /\ list[i].status = designs[d].status
                         /\ list[i].selections = designs[d].selections_json]_vars

\* a user was listed their one design, which is not a draft, out of a table
\* that also holds a design of another user
C25_Witness ==
    /\ resp.op = "list"
    /\ Len(designs) = 2
    /\ designs[1].user_id # designs[2].user_id
    /\ Len(resp.body[1].designs) = 1
    /\ resp.body[1].designs[1].status # "DRAFT"

\* C26: GET /admin/submissions with the admin secret answers 200 with one
\* record for each design whose status is SUBMITTED, whoever owns it, and
\* with no other record
C26_SubmissionsAreTheSubmitted ==
    [][\A p \in Procs, hdr \in CredentialHeaders :
          (handleAdminListSubmissions(p, hdr) /\ resp'.code # 401) =>
            LET list == resp'.body[1].designs
            IN  /\ resp'.code = 200
                /\ Listed(resp') =
                      {FormatInt(d) : d \in {x \in DesignIDs : designs[x].status = "SUBMITTED"}}
                /\ Len(list) = Cardinality(Listed(resp'))
                /\ \A i \in DOMAIN list : list[i].status = "SUBMITTED"]_vars

\* the admin was listed the submitted designs of two owners out of a table
\* of two designs
C26_Witness ==
    /\ resp.op = "submissions"
    /\ resp.code = 200
    /\ Len(designs) = 2
    /\ Len(resp.body[1].designs) = 2
    /\ resp.body[1].designs[1].userId # resp.body[1].designs[2].userId

(* -------------------------- admin credential -------------------------- *)
\* the /admin routes under every credential a request can carry
AdminNext ==
    \E p \in Procs :
       \/ \E hdr \in CredentialHeaders : handleAdminListSubmissions(p, hdr)
       \/ \E hdr \in CredentialHeaders, id \in PathIDs :
             handleAdminApproveDesign(p, hdr, id)
       \/ \E hdr \in CredentialHeaders, id \in PathIDs, body \in RejectBodies :
             handleAdminRejectDesign(p, hdr, id, body)
       \/ setDesignStatus(p)
       \/ setDesignStatusFind(p)

AdminSpec == Init /\ [][AdminNext]_vars

\* the text t occurs in the header value s
Contains(s, t) ==
    \E i \in 1..(Len(s) - Len(t) + 1) : SubSeq(s, i, i + Len(t) - 1) = t

\* the admin secret occurs in one of the two headers
CarriesAdminSecret(hdr) ==
    \/ Contains(hdr.XAdminSecret, <<"s", "3">>)
    \/ Contains(hdr.Authorization, <<"s", "3">>)

\* C24: a request to list the submissions, to approve or to reject that does
\* not carry the admin secret (no credential, a wrong one, or only a user's
\* bearer token, the owner's included) is answered 401 "admin authorization
\* failed", ends there, and leaves every design as it was
C24_AdminRoutesNeedTheSecret ==
    [][\A p \in Procs, hdr \in CredentialHeaders :
          (/\ ~CarriesAdminSecret(hdr)
           /\ \/ handleAdminListSubmissions(p, hdr)
              \/ \E id \in PathIDs :
                    \/ handleAdminApproveDesign(p, hdr, id)
                    \/ \E body \in RejectBodies :
                          handleAdminRejectDesign(p, hdr, id, body))
          => /\ resp'.code = 401
             /\ resp'.error = "admin authorization failed"
             /\ ~Busy(p)'
             /\ designs' = designs]_vars

\* an approval that carried only the owner's bearer token was refused on a
\* submitted design, which is still SUBMITTED
C24_Witness ==
    /\ resp.op = "approve" /\ resp.code = 401 /\ resp.id = 1
    /\ Len(designs) = 1 /\ designs[1].status = "SUBMITTED"

(* -------------------------- storage failures -------------------------- *)
\* the 500 a handler writes when setDesignStatus returns an error
statusFailure(op) ==
    CASE op = "submit" -> "unable to submit design"
      [] op = "approve" -> "unable to approve design"
      [] op = "reject" -> "unable to reject design"

\* findDesignByID at the head of a handler fails with an error other than
\* sql.ErrNoRows
findDesignByIDFails(p, op, id) ==
    /\ Accept(p)
    /\ id > 0
    /\ Finish(p, writeError(op, id, 500, "unable to load design"))
    /\ UNCHANGED <<designs, clock, submittedLog>>
    /\ UNCHANGED <<users, registerLog, savedDesigns, submittingDesignID>>

\* setDesignStatus: the UPDATE fails, nothing is written
setDesignStatusExecFails(p) ==
    /\ req[p].pc = "setStatus"
    /\ Finish(p, writeError(req[p].op, req[p].id, 500, statusFailure(req[p].op)))
    /\ UNCHANGED <<designs, clock, started, submittedLog>>
    /\ UNCHANGED <<users, registerLog, savedDesigns, submittingDesignID>>

\* setDesignStatus: the UPDATE has been executed and the findDesignByID that
\* follows it fails (the request context is cancelled, the database is busy)
setDesignStatusFindFails(p) ==
    /\ req[p].pc = "find"
    /\ Finish(p, writeError(req[p].op, req[p].id, 500, statusFailure(req[p].op)))
    /\ UNCHANGED <<designs, clock, started, submittedLog>>
    /\ UNCHANGED <<users, registerLog, savedDesigns, submittingDesignID>>

\* PUT /designs/{id}: the UPDATE fails, nothing is written
UpdateDesignExecFails(p) ==
    /\ req[p].pc = "update"
    /\ Finish(p, writeError("update", req[p].id, 500, "unable to update design"))
    /\ UNCHANGED <<designs, clock, started, submittedLog>>
    /\ UNCHANGED <<users, registerLog, savedDesigns, submittingDesignID>>

FaultNext ==
    \E p \in Procs :
       \/ \E user \in Users, id \in PathIDs : handleSubmitDesign(p, user, id)
       \/ \E hdr \in AdminHeaders, id \in PathIDs : handleAdminApproveDesign(p, hdr, id)
       \/ \E hdr \in AdminHeaders, id \in PathIDs, body \in RejectBodies :
             handleAdminRejectDesign(p, hdr, id, body)
       \/ \E op \in {"submit", "approve", "reject"}, id \in PathIDs :
             findDesignByIDFails(p, op, id)
       \/ setDesignStatus(p)
       \/ setDesignStatusFind(p)
       \/ setDesignStatusExecFails(p)
       \/ setDesignStatusFindFails(p)

FaultSpec == Init /\ [][FaultNext]_vars

\* C27: a submit, approve or reject that is answered with an error has
\* written nothing: the step that answers leaves the table as it is, and the
\* request has not executed the UPDATE of setDesignStatus before it
C27_ErrorMeansNothingWritten ==
    [][\A p \in Procs :
          (/\ Busy(p) /\ ~Busy(p)'
           /\ resp'.op \in {"submit", "approve", "reject"}
           /\ resp'.code >= 400)
          => /\ designs' = designs
             /\ req[p].pc # "find"]_vars

(* --------------------------- state invariants ------------------------- *)
\* C28: in every reachable state the selections of every SUBMITTED or
\* APPROVED design hold a material_9 entry and a material_3 entry whose
\* patternId is NONE
C28_SubmittedPassesGate ==
    \A d \in DesignIDs :
       designs[d].status \in {"SUBMITTED", "APPROVED"} =>
          /\ material_9 \in DOMAIN designs[d].selections_json
          /\ material_3 \in DOMAIN designs[d].selections_json
          /\ designs[d].selections_json[material_3].PatternID = NONE

\* C29: in every reachable state a design has a rejection reason that is
\* neither null nor empty exactly when its status is REJECTED
C29_ReasonIffRejected ==
    \A d \in DesignIDs :
       (designs[d].rejection_reason.Valid /\ designs[d].rejection_reason.String # <<>>)
          <=> designs[d].status = "REJECTED"

\* a submitted design was rejected with a reason while an update of it was
\* in flight
C29_Witness ==
    /\ resp.op = "reject" /\ resp.code = 200
    /\ Len(designs) = 1
    /\ designs[1].status = "REJECTED"
    /\ designs[1].rejection_reason = [Valid |-> TRUE, String |-> <<"f", "i", "x">>]
    /\ \E p \in Procs : req[p].pc = "update"

(* --------------------------- the mobile client ------------------------ *)
normalizeStatus(status) ==
    IF status \in {"APPROVED", "SUBMITTED", "REJECTED"} THEN status ELSE "DRAFT"

toSavedDesign(record) ==
    [createdAt |-> record.createdAt, id |-> record.id,
     materials |-> record.selections, name |-> record.name,
     rejectionReason |-> record.rejectionReason,
     status |-> normalizeStatus(record.status), updatedAt |-> record.updatedAt]

\* the design the saved entry design is on the server, as its path id
PathOf(design) == CHOOSE d \in DOMAIN designs : FormatInt(d) = design.id

\* the entry of savedDesigns the client is submitting
Submitting == CHOOSE i \in DOMAIN savedDesigns : savedDesigns[i].id = submittingDesignID

\* the designs of the logged-in user 1 that the Saved Designs screen lets
\* them submit (DRAFT or REJECTED), as listDesigns brought them
ClientRows ==
    {[id |-> 1, user_id |-> 1, name |-> <<"A">>, selections_json |-> m,
      status |-> st.status, rejection_reason |-> st.reason,
      created_at |-> 0, updated_at |-> 0] :
        m \in ClientSelections,
        st \in {[status |-> statusDraft, reason |-> NullString],
                [status |-> statusRejected, reason |-> ValidString(<<"f", "i", "x">>)]}}

ClientInit ==
    /\ designs \in {<<row>> : row \in ClientRows}
    /\ savedDesigns = [i \in DOMAIN designs |-> toSavedDesign(RowRecord(designs[i]))]
    /\ submittingDesignID = <<>>
    /\ clock = 0
    /\ req = [p \in Procs |-> IdleReq]
    /\ resp = NoResp
    /\ started = 0
    /\ submittedLog = [d \in 1..MaxDesigns |-> {}]
    /\ users = StartUsers
    /\ registerLog = <<>>

\* handleSubmitForApproval(design): setSubmittingDesignID(design.id)
handleSubmitForApproval(i) ==
    /\ submittingDesignID = <<>>
    /\ resp = NoResp
    /\ submittingDesignID' = savedDesigns[i].id
    /\ UNCHANGED <<designs, clock, req, resp, started, submittedLog, users,
                   registerLog, savedDesigns>>

\* await updateDesign(authToken, design.id, {materials: patchedMaterials, name})
SubmitForApprovalUpdate ==
    /\ submittingDesignID # <<>>
    /\ resp = NoResp
    /\ NeedsPatch(savedDesigns[Submitting].materials)
    /\ LET design == savedDesigns[Submitting]
       IN  handleUpdateDesign(1, 1, PathOf(design),
              [ok |-> TRUE, Name |-> design.name,
               Selections |-> patchedMaterials(design.materials)])

\* await submitDesign(authToken, designToSubmit.id)
SubmitForApprovalSubmit ==
    /\ submittingDesignID # <<>>
    /\ IF NeedsPatch(savedDesigns[Submitting].materials)
         THEN resp.op = "update" /\ resp.code = 200
         ELSE resp = NoResp
    /\ handleSubmitDesign(1, 1, PathOf(savedDesigns[Submitting]))

\* the rest of handleSubmitForApproval: the entry is replaced by the
\* submitted design, or the catch block sets dataError only
SubmitForApprovalDone ==
    /\ submittingDesignID # <<>>
    /\ ~Busy(1)
    /\ \/ /\ resp.op = "submit" /\ resp.code = 200
          /\ LET submitted == toSavedDesign(resp.body[1])
             IN  savedDesigns' = [i \in DOMAIN savedDesigns |->
                                    IF savedDesigns[i].id = submitted.id
                                      THEN submitted ELSE savedDesigns[i]]
       \/ /\ resp.op \in {"update", "submit"} /\ resp.code >= 400
          /\ UNCHANGED savedDesigns
    /\ submittingDesignID' = <<>>
    /\ UNCHANGED <<designs, clock, req, resp, started, submittedLog, users,
                   registerLog>>

ClientNext ==
    \/ \E i \in DOMAIN savedDesigns : handleSubmitForApproval(i)
    \/ SubmitForApprovalUpdate
    \/ UpdateDesignExec(1)
    \/ UpdateDesignExecFails(1)
    \/ SubmitForApprovalSubmit
    \/ setDesignStatus(1)
    \/ setDesignStatusExecFails(1)
    \/ setDesignStatusFind(1)
    \/ SubmitForApprovalDone

ClientSpec == ClientInit /\ [][ClientNext]_vars

\* C30: once handleSubmitForApproval has completed, with success or with a
\* failure of its update or of its submit, every saved design the client
\* holds has the status and the selections of its record on the server
C30_SavedDesignMatchesServer ==
    (submittingDesignID = <<>> /\ resp.op # "none") =>
       \A i \in DOMAIN savedDesigns :
          \E d \in DesignIDs :
             /\ FormatInt(d) = savedDesigns[i].id
             /\ savedDesigns[i].status = designs[d].status
             /\ savedDesigns[i].materials = designs[d].selections_json

====
